---- MODULE Spec2Model ----
(***************************************************************************)
(* The C shim layer of gotk3 (glib/glib.go.h and gtk/gtk.go.h) over an     *)
(* abstract GLib/GObject/GTK.  Every shim is one action.  A shim call      *)
(* leaves in `last` what the host observed of it: the shim, its argument   *)
(* tuple, the library calls and direct memory accesses its body made (in   *)
(* order, with the values they received and produced) and its return       *)
(* value.                                                                  *)
(*                                                                         *)
(* Pointers into g_new0 blocks are pairs <<block, offset>>; every other    *)
(* handle and string is a TLA+ string, "NULL" being the null pointer.  A   *)
(* handle to an object the library creates and no shim ever takes back     *)
(* (closure, tree view column, dialog) is identified with the object.      *)
(***************************************************************************)
EXTENDS Integers, Sequences, FiniteSets, TLC

VARIABLES
    heap,     \* g_new0 blocks: address -> [elt, cells]
    props,    \* GObject properties: object -> property -> value
    status,   \* "running" | "aborted" (the library aborted) | "fault" (trap)
    ub,       \* TRUE once a call had undefined behaviour and went on
    last,     \* the last shim call, as the host observed it
    shadow,   \* history: per block, the value last written to each slot
    thr       \* concurrent callers: per thread, its call and how far it got

vars == <<heap, props, status, ub, last, shadow, thr>>

(***************************************************************************)
(* Bounds and value domains                                                *)
(***************************************************************************)
\* Longest array the host asks for.
MaxN == 2
\* Longest message text (in characters) the host shows in a dialog.
MaxMsg == 2

\* Addresses g_new0 can hand out.
Addrs == {"a1", "a2"}

NULL == "NULL"
NullPtr == <<"NULL", 0>>

IsNull(p) == p[1] = "NULL"

\* What a g_new0 that aborted the process produced: nothing.
Aborted == <<"abort", 0>>

\* r is the address of a block.
IsBlock(r) == r[1] \notin {"NULL", "abort"}

\* GType values; G_TYPE_INVALID is the all-zero GType.
TInvalid == "G_TYPE_INVALID"
ValueTypes == {"G_TYPE_INT", "G_TYPE_STRING"}
ClassTypes == {"GTK_TYPE_LABEL", "GTK_TYPE_WINDOW"}
GTypes == {TInvalid} \cup ValueTypes \cup {"G_TYPE_OBJECT"} \cup ClassTypes

\* An all-zero element of a g_new0 block.
ZeroGValue == [g_type |-> TInvalid, data |-> "0"]

Zero(elt) == IF elt = "GValue" THEN ZeroGValue ELSE TInvalid

\* The values a stray read can produce.
Garbage(elt) ==
    IF elt = "GValue"
    THEN {[g_type |-> t, data |-> "0"] : t \in {TInvalid} \cup ValueTypes}
    ELSE {TInvalid} \cup ValueTypes

(***************************************************************************)
(* Memory: blocks, pointer validity, load and store                        *)
(***************************************************************************)
NoHeap == [a \in {} |-> 0]

Blocks(h, elt) == {a \in DOMAIN h : h[a].elt = elt}

\* p + i, in elements.
At(p, i) == <<p[1], p[2] + i>>

\* p points at an element of a live block of `elt`s.
Valid(h, elt, p) ==
    /\ p[1] \in Blocks(h, elt)
    /\ p[2] >= 0
    /\ p[2] < Len(h[p[1]].cells)

Load(h, p) == h[p[1]].cells[p[2] + 1]

Store(h, p, v) == [h EXCEPT ![p[1]].cells[p[2] + 1] = v]

\* Every element of every live block of `elt`s.
Cells(h, elt) ==
    {<<a, k>> : a \in Blocks(h, elt), k \in 0..(MaxN + 1)} \cap
    {p \in (DOMAIN h) \X (0..(MaxN + 1)) : Valid(h, elt, p)}

Call(fn, args, ret) == [fn |-> fn, args |-> args, ret |-> ret]

Observed(shim, args, calls, ret) ==
    [shim |-> shim, args |-> args, calls |-> calls, ret |-> ret]

\* No call is in progress: the host has taken the last result.
Idle == Observed("none", <<>>, <<>>, "none")

(***************************************************************************)
(* GLib, as the shims use it                                               *)
(***************************************************************************)
FreshAddr(h) == CHOOSE a \in Addrs \ DOMAIN h : TRUE

\* g_new0(struct_type, n_structs): NULL for 0 structs; n_structs is a gsize,
\* so a negative int is a count whose byte size overflows and GLib aborts.
g_new0(h, elt, n) ==
    IF n < 0 THEN [heap |-> h, ret |-> NullPtr, abort |-> TRUE]
    ELSE IF n = 0 THEN [heap |-> h, ret |-> NullPtr, abort |-> FALSE]
    ELSE LET a == FreshAddr(h) IN
         [heap |-> h @@ (a :> [elt |-> elt, cells |-> [k \in 1..n |-> Zero(elt)]]),
          ret |-> <<a, 0>>,
          abort |-> FALSE]

\* g_value_init(value, g_type): fails (returns NULL) unless g_type is a value
\* type and *value is zeroed.
g_value_init(h, value, g_type) ==
    IF g_type \in ValueTypes /\ Load(h, value).g_type = TInvalid
    THEN [heap |-> Store(h, value, [g_type |-> g_type, data |-> "0"]), ret |-> value]
    ELSE [heap |-> h, ret |-> NullPtr]

\* G_IS_VALUE(val): g_type_check_value, which accepts NULL and says FALSE.
G_IS_VALUE(h, val) ==
    IF IsNull(val) THEN FALSE ELSE Load(h, val).g_type \in ValueTypes

\* G_VALUE_TYPE(val): val->g_type.
G_VALUE_TYPE(h, val) == Load(h, val).g_type

\* G_TYPE_FUNDAMENTAL(type): the root of type's ancestry.
G_TYPE_FUNDAMENTAL(type) ==
    IF type \in ClassTypes THEN "G_TYPE_OBJECT" ELSE type

\* The live instances and their classes.
Objs == {"o1", "o2"}
InstanceType == ("o1" :> "GTK_TYPE_LABEL") @@ ("o2" :> "GTK_TYPE_WINDOW")

\* G_TYPE_FROM_INSTANCE(instance): instance->g_class->g_type.
G_TYPE_FROM_INSTANCE(instance) == InstanceType[instance]

(***************************************************************************)
(* glib.go.h: types and values                                             *)
(***************************************************************************)
Returns(obs) ==
    /\ last' = obs
    /\ UNCHANGED <<heap, props, status, ub, shadow, thr>>

\* A read through a pointer that designates no object: the call traps, or
\* goes on with whatever the read produced.
StrayRead(shim, args, fn, outs) ==
    \/ /\ status' = "fault"
       /\ last' = Observed(shim, args, <<Call(fn, args, "trap")>>, "none")
       /\ UNCHANGED <<heap, props, ub, shadow, thr>>
    \/ \E g \in outs :
          /\ ub' = TRUE
          /\ last' = Observed(shim, args, <<Call(fn, args, g)>>, g)
          /\ UNCHANGED <<heap, props, status, shadow, thr>>

_g_type_from_instance(instance) ==
    IF instance \in Objs
    THEN LET r == G_TYPE_FROM_INSTANCE(instance) IN
         Returns(Observed("_g_type_from_instance", <<instance>>,
                          <<Call("G_TYPE_FROM_INSTANCE", <<instance>>, r)>>, r))
    ELSE StrayRead("_g_type_from_instance", <<instance>>,
                   "G_TYPE_FROM_INSTANCE", GTypes)

alloc_gvalue_list(n) ==
    LET r == g_new0(heap, "GValue", n) IN
    /\ heap' = r.heap
    /\ status' = IF r.abort THEN "aborted" ELSE status
    /\ last' = IF r.abort
               THEN Observed("alloc_gvalue_list", <<n>>,
                             <<Call("g_new0", <<"GValue", n>>, Aborted)>>, "none")
               ELSE Observed("alloc_gvalue_list", <<n>>,
                             <<Call("g_new0", <<"GValue", n>>, r.ret)>>, r.ret)
    /\ shadow' = IF IsNull(r.ret) THEN shadow
                 ELSE shadow @@ (r.ret[1] :> [k \in 1..n |-> ZeroGValue])
    /\ UNCHANGED <<props, ub, thr>>

\* A write through pointers that do not both designate objects: the call
\* traps, or goes on having written nowhere the program looks or over some
\* element of a live block.
StrayWrite(obs, elt) ==
    \/ /\ status' = "fault"
       /\ last' = [obs EXCEPT !.calls[1].ret = "trap", !.ret = "none"]
       /\ UNCHANGED <<heap, props, ub, shadow, thr>>
    \/ /\ ub' = TRUE
       /\ last' = obs
       /\ \/ heap' = heap
          \/ \E p \in Cells(heap, elt), g \in Garbage(elt) : heap' = Store(heap, p, g)
       /\ UNCHANGED <<props, status, shadow, thr>>

\* As InsertMem, with the index dropped: valv[0] = *val.
InsertMem_first(h, valv, i, val) == Store(h, At(valv, 0), Load(h, val))

\* As CopyField, with the index dropped: a word of valv[0] = *val.
CopyField_first(h, valv, i, val, fld) ==
    [h EXCEPT ![valv[1]].cells[valv[2] + 1][fld] = Load(h, val)[fld]]

\* The words of a GValue, in the order a structure assignment copies them.
GValueFields == <<"g_type", "data">>

\* One word of valv[i] = *val.
CopyField(h, valv, i, val, fld) ==
    [h EXCEPT ![valv[1]].cells[valv[2] + i + 1][fld] = Load(h, val)[fld]]

\* valv[i] = *val
InsertMem(h, valv, i, val) ==
    CopyField(CopyField(h, valv, i, val, GValueFields[1]), valv, i, val, GValueFields[2])

\* As val_list_insert, returning without the assignment when a pointer is
\* NULL or the index lies outside the array.
val_list_insert_checked(valv, i, val) ==
    IF Valid(heap, "GValue", At(valv, i)) /\ Valid(heap, "GValue", val)
    THEN /\ heap' = Store(heap, At(valv, i), Load(heap, val))
         /\ shadow' = [shadow EXCEPT ![valv[1]][valv[2] + i + 1] = Load(heap, val)]
         /\ last' = Observed("val_list_insert", <<valv, i, val>>,
                             <<Call("assign", <<At(valv, i), val>>, "void")>>, "void")
         /\ UNCHANGED <<props, status, ub, thr>>
    ELSE Returns(Observed("val_list_insert", <<valv, i, val>>, <<>>, "void"))

val_list_insert(valv, i, val) ==
    LET obs == Observed("val_list_insert", <<valv, i, val>>,
                        <<Call("assign", <<At(valv, i), val>>, "void")>>, "void")
    IN
    IF Valid(heap, "GValue", At(valv, i)) /\ Valid(heap, "GValue", val)
    THEN /\ heap' = InsertMem(heap, valv, i, val)
         /\ shadow' = [shadow EXCEPT ![valv[1]][valv[2] + i + 1] = Load(heap, val)]
         /\ last' = obs
         /\ UNCHANGED <<props, status, ub, thr>>
    ELSE StrayWrite(obs, "GValue")

_g_value_alloc ==
    LET r == g_new0(heap, "GValue", 1) IN
    /\ heap' = r.heap
    /\ last' = Observed("_g_value_alloc", <<>>,
                        <<Call("g_new0", <<"GValue", 1>>, r.ret)>>, r.ret)
    /\ shadow' = shadow @@ (r.ret[1] :> <<ZeroGValue>>)
    /\ UNCHANGED <<props, status, ub, thr>>

\* As ValueInitBody, freeing the block when g_value_init rejects the type.
ValueInitBody_frees(h, g_type) ==
    LET a == g_new0(h, "GValue", 1)
        v == g_value_init(a.heap, a.ret, g_type)
    IN [heap |-> IF IsNull(v.ret) THEN h ELSE v.heap,
        calls |-> <<Call("g_new0", <<"GValue", 1>>, a.ret),
                    Call("g_value_init", <<a.ret, g_type>>, v.ret)>>,
        ret |-> v.ret]

\* As ValueInitBody, taking its block from the shim _g_value_alloc.
ValueInitBody_via_shim(h, g_type) ==
    LET a == g_new0(h, "GValue", 1)
        v == g_value_init(a.heap, a.ret, g_type)
    IN [heap |-> v.heap,
        calls |-> <<Call("_g_value_alloc", <<>>, a.ret),
                    Call("g_value_init", <<a.ret, g_type>>, v.ret)>>,
        ret |-> v.ret]

\* The body of _g_value_init: the calls it makes, over memory h.
ValueInitBody(h, g_type) ==
    LET a == g_new0(h, "GValue", 1)
        v == g_value_init(a.heap, a.ret, g_type)
    IN [heap |-> v.heap,
        calls |-> <<Call("g_new0", <<"GValue", 1>>, a.ret),
                    Call("g_value_init", <<a.ret, g_type>>, v.ret)>>,
        ret |-> v.ret]

_g_value_init(g_type) ==
    LET b == ValueInitBody(heap, g_type) IN
    /\ heap' = b.heap
    /\ last' = Observed("_g_value_init", <<g_type>>, b.calls, b.ret)
    /\ shadow' = IF b.calls[1].ret[1] \in DOMAIN b.heap
                 THEN shadow @@ (b.calls[1].ret[1] :> b.heap[b.calls[1].ret[1]].cells)
                 ELSE shadow
    /\ UNCHANGED <<props, status, ub, thr>>

_g_is_value(val) ==
    IF IsNull(val) \/ Valid(heap, "GValue", val)
    THEN LET r == G_IS_VALUE(heap, val) IN
         Returns(Observed("_g_is_value", <<val>>,
                          <<Call("G_IS_VALUE", <<val>>, r)>>, r))
    ELSE StrayRead("_g_is_value", <<val>>, "G_IS_VALUE", BOOLEAN)

_g_value_type(val) ==
    IF Valid(heap, "GValue", val)
    THEN LET r == G_VALUE_TYPE(heap, val) IN
         Returns(Observed("_g_value_type", <<val>>,
                          <<Call("G_VALUE_TYPE", <<val>>, r)>>, r))
    ELSE StrayRead("_g_value_type", <<val>>, "G_VALUE_TYPE", GTypes)

\* As _g_value_fundamental, returning its argument instead of the macro's
\* answer.
_g_value_fundamental_arg(type) ==
    LET r == G_TYPE_FUNDAMENTAL(type) IN
    Returns(Observed("_g_value_fundamental", <<type>>,
                     <<Call("G_TYPE_FUNDAMENTAL", <<type>>, r)>>, type))

_g_value_fundamental(type) ==
    LET r == G_TYPE_FUNDAMENTAL(type) IN
    Returns(Observed("_g_value_fundamental", <<type>>,
                     <<Call("G_TYPE_FUNDAMENTAL", <<type>>, r)>>, r))

(***************************************************************************)
(* glib.go.h: g_object_set without the variable argument list              *)
(***************************************************************************)
PropNames == {"label", "angle"}
PropVals == {"v0", "v1", "v2"}

\* What the host keeps in the pointer-sized cells it passes by address.
HostCell == ("c1" :> "v1") @@ ("c2" :> "v2")

\* g_object_set's walk of its variable arguments: (name, value) pairs up to
\* the first NULL name; it warns and stops at a name the class does not have.
\* A list with no NULL is read past its end; whatever lies there is taken to
\* end it.
RECURSIVE SetProperties(_, _)
SetProperties(p, va) ==
    IF Len(va) < 2 \/ va[1] = NULL \/ va[1] \notin PropNames THEN p
    ELSE SetProperties([p EXCEPT ![va[1]] = va[2]], Tail(Tail(va)))

\* g_object_set(object, first_property_name, ...): nothing for a non-object.
g_object_set(pr, va) ==
    IF va[1] \in Objs
    THEN [pr EXCEPT ![va[1]] = SetProperties(pr[va[1]], Tail(va))]
    ELSE pr

\* As ObjectSetOneArgs, without the NULL that ends the list.
ObjectSetOneArgs_open(object, property_name, val) ==
    <<object, property_name, HostCell[val]>>

\* The arguments _g_object_set_one passes to g_object_set.
ObjectSetOneArgs(object, property_name, val) ==
    <<object, property_name, HostCell[val], NULL>>

_g_object_set_one(object, property_name, val) ==
    IF val \in DOMAIN HostCell
    THEN LET va == ObjectSetOneArgs(object, property_name, val) IN
         /\ props' = g_object_set(props, va)
         /\ last' = Observed("_g_object_set_one", <<object, property_name, val>>,
                             <<Call("g_object_set", va, "void")>>, "void")
         /\ UNCHANGED <<heap, status, ub, shadow, thr>>
    ELSE \/ /\ status' = "fault"
            /\ last' = Observed("_g_object_set_one", <<object, property_name, val>>,
                                <<Call("deref", <<val>>, "trap")>>, "none")
            /\ UNCHANGED <<heap, props, ub, shadow, thr>>
         \/ \E g \in PropVals :
               LET va == <<object, property_name, g, NULL>> IN
               /\ ub' = TRUE
               /\ props' = g_object_set(props, va)
               /\ last' = Observed("_g_object_set_one", <<object, property_name, val>>,
                                   <<Call("g_object_set", va, "void")>>, "void")
               /\ UNCHANGED <<heap, status, shadow, thr>>

(***************************************************************************)
(* glib.go.h: closures                                                     *)
(***************************************************************************)
\* g_closure_new_simple(sizeof_closure, data): a closure with no marshaller.
g_closure_new_simple(sizeof_closure, data) ==
    [kind |-> "GClosure", size |-> sizeof_closure, data |-> data, marshal |-> NULL]

\* g_closure_set_marshal(closure, marshal)
g_closure_set_marshal(closure, marshal) == [closure EXCEPT !.marshal = marshal]

\* As ClosureNewBody, without the statement that sets the marshaller.
ClosureNewBody_bare == <<"g_closure_new_simple", "return">>

\* The statements of _g_closure_new, in order.
ClosureNewBody == <<"g_closure_new_simple", "g_closure_set_marshal", "return">>

\* One statement of _g_closure_new, on the local `closure`: the local after
\* it and the library call it made.
ClosureNewStmt(stmt, closure) ==
    IF stmt = "g_closure_new_simple"
    THEN LET c == g_closure_new_simple("sizeof(GClosure)", NULL) IN
         [closure |-> c,
          call |-> <<Call("g_closure_new_simple", <<"sizeof(GClosure)", NULL>>, c)>>]
    ELSE IF stmt = "g_closure_set_marshal"
    THEN [closure |-> g_closure_set_marshal(closure, "goMarshal"),
          call |-> <<Call("g_closure_set_marshal", <<closure, "goMarshal">>, "void")>>]
    ELSE [closure |-> closure, call |-> <<>>]

\* The body run from statement k to its return.
RECURSIVE ClosureNewRun(_, _, _)
ClosureNewRun(k, closure, calls) ==
    IF k > Len(ClosureNewBody) \/ ClosureNewBody[k] = "return"
    THEN [ret |-> closure, calls |-> calls]
    ELSE LET s == ClosureNewStmt(ClosureNewBody[k], closure) IN
         ClosureNewRun(k + 1, s.closure, calls \o s.call)

_g_closure_new ==
    LET r == ClosureNewRun(1, NULL, <<>>) IN
    Returns(Observed("_g_closure_new", <<>>, r.calls, r.ret))

(***************************************************************************)
(* glib.go.h: variant types                                                *)
(***************************************************************************)
\* The G_VARIANT_TYPE_* macros: each is the type string it casts.
G_VARIANT_TYPE ==
    [m \in {"G_VARIANT_TYPE_BOOLEAN"} |-> "b"] @@
    ("G_VARIANT_TYPE_BYTE" :> "y") @@ ("G_VARIANT_TYPE_INT16" :> "n") @@
    ("G_VARIANT_TYPE_UINT16" :> "q") @@ ("G_VARIANT_TYPE_INT32" :> "i") @@
    ("G_VARIANT_TYPE_UINT32" :> "u") @@ ("G_VARIANT_TYPE_INT64" :> "x") @@
    ("G_VARIANT_TYPE_UINT64" :> "t") @@ ("G_VARIANT_TYPE_HANDLE" :> "h") @@
    ("G_VARIANT_TYPE_DOUBLE" :> "d") @@ ("G_VARIANT_TYPE_STRING" :> "s") @@
    ("G_VARIANT_TYPE_OBJECT_PATH" :> "o") @@ ("G_VARIANT_TYPE_SIGNATURE" :> "g") @@
    ("G_VARIANT_TYPE_VARIANT" :> "v") @@ ("G_VARIANT_TYPE_ANY" :> "*") @@
    ("G_VARIANT_TYPE_BASIC" :> "?") @@ ("G_VARIANT_TYPE_MAYBE" :> "m*") @@
    ("G_VARIANT_TYPE_ARRAY" :> "a*") @@ ("G_VARIANT_TYPE_TUPLE" :> "r") @@
    ("G_VARIANT_TYPE_UNIT" :> "()") @@ ("G_VARIANT_TYPE_DICT_ENTRY" :> "{?*}") @@
    ("G_VARIANT_TYPE_DICTIONARY" :> "a{?*}") @@
    ("G_VARIANT_TYPE_STRING_ARRAY" :> "as") @@
    ("G_VARIANT_TYPE_OBJECT_PATH_ARRAY" :> "ao") @@
    ("G_VARIANT_TYPE_BYTESTRING" :> "ay") @@
    ("G_VARIANT_TYPE_BYTESTRING_ARRAY" :> "aay") @@
    ("G_VARIANT_TYPE_VARDICT" :> "a{sv}")

\* The macro each accessor returns.
VariantAccessor ==
    [f \in {"_g_variant_type_boolean"} |-> "G_VARIANT_TYPE_BOOLEAN"] @@
    ("_g_variant_type_byte" :> "G_VARIANT_TYPE_BYTE") @@
    ("_g_variant_type_int16" :> "G_VARIANT_TYPE_INT16") @@
    ("_g_variant_type_uint16" :> "G_VARIANT_TYPE_UINT16") @@
    ("_g_variant_type_int32" :> "G_VARIANT_TYPE_INT32") @@
    ("_g_variant_type_uint32" :> "G_VARIANT_TYPE_UINT32") @@
    ("_g_variant_type_int64" :> "G_VARIANT_TYPE_INT64") @@
    ("_g_variant_type_uint64" :> "G_VARIANT_TYPE_UINT64") @@
    ("_g_variant_type_handle" :> "G_VARIANT_TYPE_HANDLE") @@
    ("_g_variant_type_double" :> "G_VARIANT_TYPE_DOUBLE") @@
    ("_g_variant_type_string" :> "G_VARIANT_TYPE_STRING") @@
    ("_g_variant_type_object_path" :> "G_VARIANT_TYPE_OBJECT_PATH") @@
    ("_g_variant_type_signature" :> "G_VARIANT_TYPE_SIGNATURE") @@
    ("_g_variant_type_variant" :> "G_VARIANT_TYPE_VARIANT") @@
    ("_g_variant_type_any" :> "G_VARIANT_TYPE_ANY") @@
    ("_g_variant_type_basic" :> "G_VARIANT_TYPE_BASIC") @@
    ("_g_variant_type_maybe" :> "G_VARIANT_TYPE_MAYBE") @@
    ("_g_variant_type_array" :> "G_VARIANT_TYPE_ARRAY") @@
    ("_g_variant_type_tuple" :> "G_VARIANT_TYPE_TUPLE") @@
    ("_g_variant_type_unit" :> "G_VARIANT_TYPE_UNIT") @@
    ("_g_variant_type_dict_entry" :> "G_VARIANT_TYPE_DICT_ENTRY") @@
    ("_g_variant_type_dictionary" :> "G_VARIANT_TYPE_DICTIONARY") @@
    ("_g_variant_type_string_array" :> "G_VARIANT_TYPE_STRING_ARRAY") @@
    ("_g_variant_type_object_path_array" :> "G_VARIANT_TYPE_OBJECT_PATH_ARRAY") @@
    ("_g_variant_type_bytestring" :> "G_VARIANT_TYPE_BYTESTRING") @@
    ("_g_variant_type_bytestring_array" :> "G_VARIANT_TYPE_BYTESTRING_ARRAY") @@
    ("_g_variant_type_vardict" :> "G_VARIANT_TYPE_VARDICT")

\* As VariantMacro, the uint16 accessor pasted from the int16 one.
VariantMacro_pasted(f) ==
    IF f = "_g_variant_type_uint16" THEN "G_VARIANT_TYPE_INT16"
    ELSE VariantAccessor[f]

\* The macro accessor f returns.
VariantMacro(f) == VariantAccessor[f]

\* Any one of the _g_variant_type_* accessors.
_g_variant_type(f) ==
    LET m == VariantMacro(f) IN
    Returns(Observed(f, <<>>, <<Call(m, <<>>, G_VARIANT_TYPE[m])>>, G_VARIANT_TYPE[m]))

(***************************************************************************)
(* gtk.go.h                                                                *)
(***************************************************************************)
alloc_types(n) ==
    LET r == g_new0(heap, "GType", n) IN
    /\ heap' = r.heap
    /\ status' = IF r.abort THEN "aborted" ELSE status
    /\ last' = IF r.abort
               THEN Observed("alloc_types", <<n>>,
                             <<Call("g_new0", <<"GType", n>>, Aborted)>>, "none")
               ELSE Observed("alloc_types", <<n>>,
                             <<Call("g_new0", <<"GType", n>>, r.ret)>>, r.ret)
    /\ shadow' = IF IsNull(r.ret) THEN shadow
                 ELSE shadow @@ (r.ret[1] :> [k \in 1..n |-> TInvalid])
    /\ UNCHANGED <<props, ub, thr>>

\* types[n] = t
SetTypeMem(h, types, n, t) == Store(h, At(types, n), t)

set_type(types, n, t) ==
    LET obs == Observed("set_type", <<types, n, t>>,
                        <<Call("assign", <<At(types, n), t>>, "void")>>, "void")
    IN
    IF Valid(heap, "GType", At(types, n))
    THEN /\ heap' = SetTypeMem(heap, types, n, t)
         /\ shadow' = [shadow EXCEPT ![types[1]][types[2] + n + 1] = t]
         /\ last' = obs
         /\ UNCHANGED <<props, status, ub, thr>>
    ELSE StrayWrite(obs, "GType")

AttrNames == {"text", "active"}

\* The (attribute, column) pairs of a variable argument list, up to the first
\* NULL attribute, added to a column's attribute mapping (a set of pairs, at
\* most one per attribute).
RECURSIVE SetAttributes(_, _)
SetAttributes(attrs, va) ==
    IF Len(va) < 2 \/ va[1] = NULL THEN attrs
    ELSE SetAttributes({x \in attrs : x[1] # va[1]} \cup {<<va[1], va[2]>>},
                       Tail(Tail(va)))

\* gtk_tree_view_column_new_with_attributes(title, cell, ...): a new column
\* with the title, the renderer packed and the listed attributes.
gtk_tree_view_column_new_with_attributes(va) ==
    [kind |-> "GtkTreeViewColumn", title |-> va[1], renderer |-> va[2],
     attrs |-> SetAttributes({}, Tail(Tail(va)))]

\* The arguments the shim passes to the library.
ColumnNewArgs(title, renderer, attribute, column) ==
    <<title, renderer, attribute, column, NULL>>

_gtk_tree_view_column_new_with_attributes_one(title, renderer, attribute, column) ==
    LET va == ColumnNewArgs(title, renderer, attribute, column)
        tvc == gtk_tree_view_column_new_with_attributes(va)
    IN Returns(Observed("_gtk_tree_view_column_new_with_attributes_one",
                        <<title, renderer, attribute, column>>,
                        <<Call("gtk_tree_view_column_new_with_attributes", va, tvc)>>,
                        tvc))

\* The characters of message texts.
Chars == {"a", "%", "s"}

\* printf's expansion of format f over the variable arguments va: "%%" is a
\* percent sign, "%s" the next argument.  A "%s" with no argument left, or a
\* "%" that starts no conversion, reads what it should not; "?" stands for
\* what that yields.
RECURSIVE Format(_, _)
Format(f, va) ==
    IF f = <<>> THEN <<>>
    ELSE IF f[1] # "%" THEN <<f[1]>> \o Format(Tail(f), va)
    ELSE IF Len(f) >= 2 /\ f[2] = "%" THEN <<"%">> \o Format(Tail(Tail(f)), va)
    ELSE IF Len(f) >= 2 /\ f[2] = "s"
         THEN (IF va = <<>> THEN <<"?">> ELSE va[1]) \o
              Format(Tail(Tail(f)), IF va = <<>> THEN va ELSE Tail(va))
    ELSE <<"?">> \o Format(Tail(f), va)

\* How many variable arguments printf reads for format f.
RECURSIVE FormatReads(_)
FormatReads(f) ==
    IF f = <<>> THEN 0
    ELSE IF f[1] # "%" THEN FormatReads(Tail(f))
    ELSE IF Len(f) >= 2 /\ f[2] = "%" THEN FormatReads(Tail(Tail(f)))
    ELSE IF Len(f) >= 2 /\ f[2] = "s" THEN 1 + FormatReads(Tail(Tail(f)))
    ELSE FormatReads(Tail(f))

\* gtk_message_dialog_new(parent, flags, type, buttons, message_format, ...):
\* the dialog, and with it how many variable arguments building it read.
gtk_message_dialog_new(parent, flags, type, buttons, message_format, va) ==
    [kind |-> "GtkMessageDialog", parent |-> parent, flags |-> flags,
     type |-> type, buttons |-> buttons,
     text |-> Format(message_format, va),
     va_read |-> FormatReads(message_format)]

\* As DialogFormat, with msg itself as the format.
DialogFormat_msg(msg) == [format |-> msg, va |-> <<>>]

\* The format and the variable arguments the shim passes for msg.
DialogFormat(msg) == [format |-> <<"%", "s">>, va |-> <<msg>>]

_gtk_message_dialog_new(parent, flags, type, buttons, msg) ==
    LET f == DialogFormat(msg)
        w == gtk_message_dialog_new(parent, flags, type, buttons, f.format, f.va)
    IN Returns(Observed("_gtk_message_dialog_new",
                        <<parent, flags, type, buttons, msg>>,
                        <<Call("gtk_message_dialog_new",
                               <<parent, flags, type, buttons, f.format>> \o f.va, w)>>,
                        w))

\* The GErrors the library has handed out, by message.
ErrorMessage == ("e1" :> "no such file") @@ ("e2" :> "bad value")

error_get_message(error) ==
    IF error \in DOMAIN ErrorMessage
    THEN Returns(Observed("error_get_message", <<error>>,
                          <<Call("deref", <<error>>, ErrorMessage[error])>>,
                          ErrorMessage[error]))
    ELSE StrayRead("error_get_message", <<error>>, "deref",
                   {"no such file", "bad value", "?"})

\* g_type_name(type)
g_type_name ==
    ("GTK_TYPE_LABEL" :> "GtkLabel") @@ ("GTK_TYPE_WINDOW" :> "GtkWindow") @@
    ("G_TYPE_OBJECT" :> "GObject") @@ ("G_TYPE_INT" :> "gint") @@
    ("G_TYPE_STRING" :> "gchararray")

\* G_OBJECT_CLASS_NAME(G_OBJECT_GET_CLASS(object)): the name of the type of
\* object's class.
G_OBJECT_CLASS_NAME(object) == g_type_name[InstanceType[object]]

object_get_class_name(object) ==
    IF object \in Objs
    THEN LET r == G_OBJECT_CLASS_NAME(object) IN
         Returns(Observed("object_get_class_name", <<object>>,
                          <<Call("G_OBJECT_CLASS_NAME", <<object>>, r)>>, r))
    ELSE StrayRead("object_get_class_name", <<object>>, "G_OBJECT_CLASS_NAME",
                   {"GtkLabel", "GtkWindow", "?"})

(***************************************************************************)
(* The host: one caller, one shim call at a time                           *)
(***************************************************************************)
Threads == {"t1", "t2"}

\* A thread that has made no call.
IdleThread ==
    [pc |-> "idle", shim |-> "none", args |-> <<>>, k |-> 0,
     closure |-> NULL, visible |-> FALSE, invoked |-> "none"]

Init ==
    /\ heap = NoHeap
    /\ props = [o \in Objs |-> [p \in PropNames |-> "v0"]]
    /\ status = "running"
    /\ ub = FALSE
    /\ last = Idle
    /\ shadow = NoHeap
    /\ thr = [t \in Threads |-> IdleThread]

\* The host can call: the process is alive and no call is in progress.
Ready == status = "running" /\ last.shim = "none"

\* The arena has room for one more block.
CanAlloc == Addrs \ DOMAIN heap # {}

\* The host takes the result of the call and goes on.
HostResumes ==
    /\ status = "running"
    /\ last.shim # "none"
    /\ last' = Idle
    /\ UNCHANGED <<heap, props, ub, shadow, thr>>
    /\ UNCHANGED status

\* Pointers the host holds or forms: NULL, and block + k for its blocks.
Ptrs(elt, offs) == {NullPtr} \cup {<<a, k>> : a \in Blocks(heap, elt), k \in offs}

\* Inputs of the forwarding specification.
Counts == {-1, 0, 1}
Indices == {-1, 0, 1}
Messages(n) == UNION {[1..k -> Chars] : k \in 0..n}

Next ==
    \/ HostResumes
    \/ Ready /\ \E instance \in Objs \cup {NULL} : _g_type_from_instance(instance)
    \/ Ready /\ _g_object_set_one("o1", "label", "c1")
    \/ Ready /\ \E n \in Counts : (n > 0 => CanAlloc) /\ alloc_gvalue_list(n)
    \/ Ready /\ \E valv \in Ptrs("GValue", {0}), i \in Indices, val \in Ptrs("GValue", {0}) :
                   val_list_insert(valv, i, val)
    \/ Ready /\ CanAlloc /\ _g_value_alloc
    \/ Ready /\ CanAlloc /\ \E t \in {TInvalid} \cup ValueTypes : _g_value_init(t)
    \/ Ready /\ \E val \in Ptrs("GValue", {0, 1}) : _g_is_value(val)
    \/ Ready /\ \E val \in Ptrs("GValue", {0, 1}) : _g_value_type(val)
    \/ Ready /\ \E t \in GTypes : _g_value_fundamental(t)
    \/ Ready /\ _g_closure_new
    \/ Ready /\ \E f \in DOMAIN VariantAccessor : _g_variant_type(f)
    \/ Ready /\ \E n \in Counts : (n > 0 => CanAlloc) /\ alloc_types(n)
    \/ Ready /\ \E types \in Ptrs("GType", {0}), n \in Indices, t \in ValueTypes :
                   set_type(types, n, t)
    \/ Ready /\ \E attribute \in AttrNames, column \in {0, 1} :
                   _gtk_tree_view_column_new_with_attributes_one(
                       "Name", "renderer", attribute, column)
    \/ Ready /\ \E msg \in Messages(1) :
                   _gtk_message_dialog_new("window", "GTK_DIALOG_MODAL",
                       "GTK_MESSAGE_INFO", "GTK_BUTTONS_OK", msg)
    \/ Ready /\ \E error \in DOMAIN ErrorMessage \cup {NULL} : error_get_message(error)
    \/ Ready /\ \E object \in Objs \cup {NULL} : object_get_class_name(object)

Spec == Init /\ [][Next]_vars

\* The array helpers alone, on arrays of up to MaxN slots and on indices and
\* pointers inside them.
NextArr ==
    \/ HostResumes
    \/ Ready /\ CanAlloc /\ \E n \in 1..MaxN : alloc_gvalue_list(n)
    \/ Ready /\ \E a \in Blocks(heap, "GValue"), val \in Cells(heap, "GValue") :
                   \E i \in 0..(Len(heap[a].cells) - 1) : val_list_insert(<<a, 0>>, i, val)
    \/ Ready /\ CanAlloc /\ \E t \in ValueTypes : _g_value_init(t)
    \/ Ready /\ CanAlloc /\ \E n \in 1..MaxN : alloc_types(n)
    \/ Ready /\ \E a \in Blocks(heap, "GType"), t \in {TInvalid} \cup ValueTypes :
                   \E n \in 0..(Len(heap[a].cells) - 1) : set_type(<<a, 0>>, n, t)

SpecArr == Init /\ [][NextArr]_vars

\* The shims that stand in for a variable argument list, on every object,
\* name, cell and message.
NextVariadic ==
    \/ HostResumes
    \/ Ready /\ \E object \in Objs \cup {NULL},
                   property_name \in PropNames \cup {NULL, "no-such-property"},
                   val \in DOMAIN HostCell \cup {NULL} :
                   _g_object_set_one(object, property_name, val)
    \/ Ready /\ \E title \in {"Name", NULL}, attribute \in AttrNames \cup {NULL},
                   column \in {0, 1} :
                   _gtk_tree_view_column_new_with_attributes_one(
                       title, "renderer", attribute, column)
    \/ Ready /\ \E parent \in {"window", NULL}, msg \in Messages(MaxMsg) :
                   _gtk_message_dialog_new(parent, "GTK_DIALOG_MODAL",
                       "GTK_MESSAGE_INFO", "GTK_BUTTONS_OK", msg)

SpecVariadic == Init /\ [][NextVariadic]_vars

(***************************************************************************)
(* Concurrent callers: each thread makes one call, which runs statement by *)
(* statement and word by word, interleaved with the other thread's         *)
(***************************************************************************)
\* The memory the threads share: an array of GValues, a block of two
\* initialised GValues to copy from, and an array of GTypes.
ConcHeap ==
    ("a1" :> [elt |-> "GValue", cells |-> [k \in 1..MaxN |-> ZeroGValue]]) @@
    ("a2" :> [elt |-> "GValue",
              cells |-> <<[g_type |-> "G_TYPE_INT", data |-> "0"],
                          [g_type |-> "G_TYPE_STRING", data |-> "0"]>>]) @@
    ("a3" :> [elt |-> "GType", cells |-> [k \in 1..MaxN |-> TInvalid]])

InitConc ==
    /\ heap = ConcHeap
    /\ props = [o \in Objs |-> [p \in PropNames |-> "v0"]]
    /\ status = "running"
    /\ ub = FALSE
    /\ last = Idle
    /\ shadow = NoHeap
    /\ thr = [t \in Threads |-> IdleThread]

\* The elements a call writes and reads.
Writes(shim, args) ==
    IF shim \in {"val_list_insert", "set_type"} THEN {At(args[1], args[2])} ELSE {}

Reads(shim, args) == IF shim = "val_list_insert" THEN {args[3]} ELSE {}

\* Two calls touch no element in common that either writes.
Disjoint(s1, a1, s2, a2) ==
    /\ Writes(s1, a1) \cap (Writes(s2, a2) \cup Reads(s2, a2)) = {}
    /\ Writes(s2, a2) \cap Reads(s1, a1) = {}

InFlight(t) == thr[t].pc = "run"

\* Thread t enters a shim.  Entering while a call that touches the same
\* element is in flight is a data race.
Begin(t, shim, args) ==
    /\ status = "running"
    /\ thr[t].pc = "idle"
    /\ thr' = [thr EXCEPT ![t] = [IdleThread EXCEPT
                  !.pc = "run", !.shim = shim, !.args = args, !.k = 1]]
    /\ ub' = (ub \/ \E u \in Threads \ {t} :
                      InFlight(u) /\ ~Disjoint(shim, args, thr[u].shim, thr[u].args))
    /\ UNCHANGED <<heap, props, status, last, shadow>>

\* The next word of thread t's valv[i] = *val.
StepInsert(t) ==
    LET a == thr[t].args IN
    /\ InFlight(t)
    /\ thr[t].shim = "val_list_insert"
    /\ heap' = CopyField(heap, a[1], a[2], a[3], GValueFields[thr[t].k])
    /\ thr' = [thr EXCEPT ![t].k = @ + 1,
                          ![t].pc = IF thr[t].k = Len(GValueFields) THEN "done" ELSE "run"]
    /\ UNCHANGED <<props, status, ub, last, shadow>>

\* Thread t's types[n] = t.
StepSetType(t) ==
    LET a == thr[t].args IN
    /\ InFlight(t)
    /\ thr[t].shim = "set_type"
    /\ heap' = SetTypeMem(heap, a[1], a[2], a[3])
    /\ thr' = [thr EXCEPT ![t].k = @ + 1, ![t].pc = "done"]
    /\ UNCHANGED <<props, status, ub, last, shadow>>

\* The next statement of thread t's _g_closure_new; at the return the caller
\* gets the closure.
StepClosure(t) ==
    /\ InFlight(t)
    /\ thr[t].shim = "_g_closure_new"
    /\ LET stmt == ClosureNewBody[thr[t].k]
           r == ClosureNewStmt(stmt, thr[t].closure)
       IN thr' = [thr EXCEPT ![t].k = @ + 1,
                             ![t].closure = r.closure,
                             ![t].visible = (stmt = "return"),
                             ![t].pc = IF stmt = "return" THEN "done" ELSE "run"]
    /\ UNCHANGED <<heap, props, status, ub, last, shadow>>

\* g_closure_invoke on the closure thread t was given: the library
\* dispatches to the closure's marshaller.
Invoke(t) ==
    /\ thr[t].visible
    /\ thr[t].invoked = "none"
    /\ thr' = [thr EXCEPT ![t].invoked = thr[t].closure.marshal]
    /\ UNCHANGED <<heap, props, status, ub, last, shadow>>

Step(t) == StepInsert(t) \/ StepSetType(t) \/ StepClosure(t)

NextConc ==
    \/ \E t \in Threads, i \in 0..(MaxN - 1),
          val \in Cells(ConcHeap, "GValue") :
          Begin(t, "val_list_insert", <<<<"a1", 0>>, i, val>>)
    \/ \E t \in Threads, n \in 0..(MaxN - 1), g \in ValueTypes :
          Begin(t, "set_type", <<<<"a3", 0>>, n, g>>)
    \/ \E t \in Threads : Begin(t, "_g_closure_new", <<>>)
    \/ \E t \in Threads : StepInsert(t)
    \/ \E t \in Threads : StepSetType(t)
    \/ \E t \in Threads : StepClosure(t)
    \/ \E t \in Threads : Invoke(t)

SpecConc == InitConc /\ [][NextConc]_vars

(***************************************************************************)
(* Properties of the forwarding layer                                      *)
(***************************************************************************)
Accessors == DOMAIN VariantAccessor

ShimNames ==
    Accessors \cup
    {"_g_type_from_instance", "_g_object_set_one", "alloc_gvalue_list",
     "val_list_insert", "_g_value_alloc", "_g_value_init", "_g_is_value",
     "_g_value_type", "_g_value_fundamental", "_g_closure_new", "alloc_types",
     "set_type", "_gtk_tree_view_column_new_with_attributes_one",
     "_gtk_message_dialog_new", "error_get_message", "object_get_class_name"}

\* A call has returned to the host (it neither trapped nor aborted).
Returned == last.shim # "none" /\ status = "running"

\* C1 as stated: every shim makes one library call, hands it exactly its own
\* argument tuple and returns exactly what the call returned.
C1_ForwardsUnchanged ==
    Returned =>
        /\ Len(last.calls) = 1
        /\ last.calls[1].fn \notin {"deref", "assign"}
        /\ Len(last.calls[1].args) = Len(last.args)
        /\ \A k \in 1..Len(last.args) : last.calls[1].args[k] = last.args[k]
        /\ last.ret = last.calls[1].ret

\* The shims that hand the library exactly their own argument tuple.
ExactForwarders ==
    Accessors \cup
    {"_g_type_from_instance", "_g_is_value", "_g_value_type",
     "_g_value_fundamental", "object_get_class_name"}

\* C1 amended: every shim returns unchanged what its library call, macro or
\* memory read produced; the library receives exactly the shim's arguments
\* only from the exact forwarders, and from each other shim the arguments
\* stated here: a dereferenced value and a NULL terminator, an element type
\* and count, a fresh GValue, a closure size, data and marshaller, a "%s"
\* format; val_list_insert, set_type and error_get_message call no library
\* function at all.
C1_Forwarding ==
    Returned =>
        LET s == last.shim
            a == last.args
            c == last.calls
        IN
        /\ s \in ShimNames
        /\ s \in ExactForwarders =>
              /\ Len(c) = 1
              /\ c[1].args = a
              /\ last.ret = c[1].ret
        /\ s = "_g_object_set_one" =>
              /\ Len(c) = 1
              /\ c[1].fn = "g_object_set"
              /\ c[1].args = <<a[1], a[2], HostCell[a[3]], NULL>>
              /\ last.ret = "void"
        /\ s \in {"alloc_gvalue_list", "alloc_types"} =>
              /\ Len(c) = 1
              /\ c[1].fn = "g_new0"
              /\ c[1].args = <<IF s = "alloc_types" THEN "GType" ELSE "GValue", a[1]>>
              /\ last.ret = c[1].ret
        /\ s = "_g_value_alloc" =>
              /\ Len(c) = 1
              /\ c[1].fn = "g_new0"
              /\ c[1].args = <<"GValue", 1>>
              /\ last.ret = c[1].ret
        /\ s = "_g_value_init" =>
              /\ Len(c) = 2
              /\ c[1].fn = "g_new0" /\ c[1].args = <<"GValue", 1>>
              /\ c[2].fn = "g_value_init" /\ c[2].args = <<c[1].ret, a[1]>>
              /\ last.ret = c[2].ret
        /\ s = "_g_closure_new" =>
              /\ Len(c) = 2
              /\ c[1].fn = "g_closure_new_simple"
              /\ c[1].args = <<"sizeof(GClosure)", NULL>>
              /\ c[2].fn = "g_closure_set_marshal"
              /\ c[2].args = <<c[1].ret, "goMarshal">>
              /\ last.ret = [c[1].ret EXCEPT !.marshal = "goMarshal"]
        /\ s = "_gtk_tree_view_column_new_with_attributes_one" =>
              /\ Len(c) = 1
              /\ c[1].args = a \o <<NULL>>
              /\ last.ret = c[1].ret
        /\ s = "_gtk_message_dialog_new" =>
              /\ Len(c) = 1
              /\ c[1].args = <<a[1], a[2], a[3], a[4], <<"%", "s">>, a[5]>>
              /\ last.ret = c[1].ret
        /\ s \in {"val_list_insert", "set_type"} =>
              /\ Len(c) = 1
              /\ c[1].fn = "assign"
              /\ last.ret = "void"
        /\ s = "error_get_message" =>
              /\ Len(c) = 1
              /\ c[1].fn = "deref"
              /\ c[1].args = a
              /\ last.ret = c[1].ret

\* C1's case: after other shims have run, an exact forwarder hands its
\* argument to the macro and returns the macro's answer.
C1_Witness ==
    /\ Returned
    /\ last.shim = "_g_value_fundamental"
    /\ last.args = <<"GTK_TYPE_LABEL">>
    /\ last.ret = "G_TYPE_OBJECT"
    /\ DOMAIN heap # {}

\* The library calls of the last shim call that allocated a block.
Allocations ==
    {k \in 1..Len(last.calls) :
        \/ last.calls[k].fn = "g_closure_new_simple"
        \/ last.calls[k].fn = "g_new0" /\ IsBlock(last.calls[k].ret)}

\* The direct memory writes of the last shim call.
DirectWrites == {k \in 1..Len(last.calls) : last.calls[k].fn = "assign"}

AllocatingShims ==
    {"alloc_gvalue_list", "_g_value_alloc", "_g_value_init", "alloc_types",
     "_g_closure_new"}

WritingShims == {"val_list_insert", "set_type"}

C4_Stateless ==
    Returned =>
        LET s == last.shim
            a == last.args
            r == last.ret
        IN
        /\ \A k \in 1..Len(last.calls) : last.calls[k].fn \notin ShimNames
        /\ (s = "_g_type_from_instance" /\ a[1] \in Objs) =>
              r = G_TYPE_FROM_INSTANCE(a[1])
        /\ (s = "_g_is_value" /\ (IsNull(a[1]) \/ Valid(heap, "GValue", a[1]))) =>
              r = G_IS_VALUE(heap, a[1])
        /\ (s = "_g_value_type" /\ Valid(heap, "GValue", a[1])) =>
              r = G_VALUE_TYPE(heap, a[1])
        /\ s = "_g_value_fundamental" => r = G_TYPE_FUNDAMENTAL(a[1])
        /\ s \in Accessors => r = G_VARIANT_TYPE[VariantAccessor[s]]
        /\ (s = "error_get_message" /\ a[1] \in DOMAIN ErrorMessage) =>
              r = ErrorMessage[a[1]]
        /\ (s = "object_get_class_name" /\ a[1] \in Objs) =>
              r = G_OBJECT_CLASS_NAME(a[1])
        /\ s \in {"alloc_gvalue_list", "alloc_types"} =>
              \/ a[1] = 0 /\ r = NullPtr
              \/ /\ a[1] > 0
                 /\ IsBlock(r)
                 /\ r[2] = 0
                 /\ heap[r[1]].cells =
                       [k \in 1..a[1] |->
                           IF s = "alloc_types" THEN TInvalid ELSE ZeroGValue]
        /\ s = "_g_value_alloc" =>
              IsBlock(r) /\ r[2] = 0 /\ heap[r[1]].cells = <<ZeroGValue>>
        /\ s = "_g_value_init" =>
              \/ a[1] \notin ValueTypes /\ r = NullPtr
              \/ /\ a[1] \in ValueTypes
                 /\ IsBlock(r)
                 /\ heap[r[1]].cells = <<[g_type |-> a[1], data |-> "0"]>>
        /\ s = "_g_closure_new" =>
              r = [kind |-> "GClosure", size |-> "sizeof(GClosure)",
                   data |-> NULL, marshal |-> "goMarshal"]
        /\ s = "_gtk_tree_view_column_new_with_attributes_one" =>
              r = [kind |-> "GtkTreeViewColumn", title |-> a[1],
                   renderer |-> a[2], attrs |-> {<<a[3], a[4]>>}]
        /\ s = "_gtk_message_dialog_new" =>
              /\ r.parent = a[1] /\ r.flags = a[2]
              /\ r.type = a[3] /\ r.buttons = a[4]
              /\ r.text = a[5]
        /\ s \in {"_g_object_set_one", "val_list_insert", "set_type"} => r = "void"

\* C4's case: a read returns what an earlier call of another shim left in
\* the object its argument points to.
C4_Witness ==
    /\ Returned /\ ~ub
    /\ last.shim = "_g_value_type"
    /\ last.ret = "G_TYPE_STRING"
    /\ last.args[1][2] = 0
    /\ Len(heap[last.args[1][1]].cells) = 1

\* The shims C5 names, with the one access or library call of each.
UncheckedOp ==
    [s \in {"error_get_message"} |-> "deref"] @@
    ("val_list_insert" :> "assign") @@ ("set_type" :> "assign") @@
    ("object_get_class_name" :> "G_OBJECT_CLASS_NAME") @@
    ("alloc_gvalue_list" :> "g_new0") @@ ("alloc_types" :> "g_new0")

\* C5: on every input, a NULL pointer, an index outside the array and a
\* negative count included, each of these shims performs its one access or
\* library call exactly once and on exactly the operands its arguments give,
\* and reports nothing of its own: a call that does not return was ended by
\* that access's trap or by the library's abort, a call that returns returns
\* what the access or library call produced.
C5_NoValidation ==
    last.shim \in DOMAIN UncheckedOp =>
        LET s == last.shim
            a == last.args
            c == last.calls
        IN
        /\ Len(c) = 1
        /\ c[1].fn = UncheckedOp[s]
        /\ c[1].args =
              IF s = "val_list_insert" THEN <<At(a[1], a[2]), a[3]>>
              ELSE IF s = "set_type" THEN <<At(a[1], a[2]), a[3]>>
              ELSE IF s = "alloc_gvalue_list" THEN <<"GValue", a[1]>>
              ELSE IF s = "alloc_types" THEN <<"GType", a[1]>>
              ELSE a
        /\ status = "running" => last.ret = c[1].ret
        /\ status = "aborted" =>
              c[1].fn = "g_new0" /\ c[1].ret = Aborted /\ a[1] < 0
        /\ status = "fault" => c[1].fn # "g_new0" /\ c[1].ret = "trap"

\* C5's case: a shim was handed a NULL pointer or an index outside the
\* array, made its access all the same, and the access trapped.
C5_Witness ==
    /\ status = "fault"
    /\ last.shim = "val_list_insert"
    /\ ~IsNull(last.args[1])
    /\ last.args[2] = -1
    /\ last.calls = <<Call("assign", <<At(last.args[1], -1), last.args[3]>>, "trap")>>

\* The type string g_variant_type documents for the type each accessor is
\* named after.
NamedType ==
    [f \in {"_g_variant_type_boolean"} |-> "b"] @@
    ("_g_variant_type_byte" :> "y") @@ ("_g_variant_type_int16" :> "n") @@
    ("_g_variant_type_uint16" :> "q") @@ ("_g_variant_type_int32" :> "i") @@
    ("_g_variant_type_uint32" :> "u") @@ ("_g_variant_type_int64" :> "x") @@
    ("_g_variant_type_uint64" :> "t") @@ ("_g_variant_type_handle" :> "h") @@
    ("_g_variant_type_double" :> "d") @@ ("_g_variant_type_string" :> "s") @@
    ("_g_variant_type_object_path" :> "o") @@
    ("_g_variant_type_signature" :> "g") @@ ("_g_variant_type_variant" :> "v") @@
    ("_g_variant_type_any" :> "*") @@ ("_g_variant_type_basic" :> "?") @@
    ("_g_variant_type_maybe" :> "m*") @@ ("_g_variant_type_array" :> "a*") @@
    ("_g_variant_type_tuple" :> "r") @@ ("_g_variant_type_unit" :> "()") @@
    ("_g_variant_type_dict_entry" :> "{?*}") @@
    ("_g_variant_type_dictionary" :> "a{?*}") @@
    ("_g_variant_type_string_array" :> "as") @@
    ("_g_variant_type_object_path_array" :> "ao") @@
    ("_g_variant_type_bytestring" :> "ay") @@
    ("_g_variant_type_bytestring_array" :> "aay") @@
    ("_g_variant_type_vardict" :> "a{sv}")

\* C6: there are 27 accessors; whatever was called before, each returns the
\* descriptor of the type it is named after, and that descriptor is the one
\* no accessor of another name returns.
C6_VariantSingletons ==
    /\ Cardinality(Accessors) = 27
    /\ (last.shim \in Accessors /\ Returned) =>
          /\ last.ret = NamedType[last.shim]
          /\ last.calls = <<Call(VariantAccessor[last.shim], <<>>, last.ret)>>
          /\ \A g \in Accessors \ {last.shim} :
                G_VARIANT_TYPE[VariantMacro(g)] # last.ret

\* C6's case: after other shims have run and left blocks behind, the uint16
\* accessor returns the uint16 descriptor.
C6_Witness ==
    /\ Returned
    /\ last.shim = "_g_variant_type_uint16"
    /\ last.ret = "q"
    /\ Cardinality(DOMAIN heap) = 2

(***************************************************************************)
(* Properties of the variadic stand-ins (SpecVariadic)                     *)
(***************************************************************************)
\* C2: _g_object_set_one hands g_object_set its object and exactly one
\* (name, value) pair, the value read from *val, and then NULL; the call
\* sets that property of that object to that value and changes no other
\* property of any object.  The column shim hands the library the title,
\* the renderer, exactly one (attribute, column) pair and then NULL; the new
\* column has that attribute mapped and no other.
C2_OnePair ==
    [][(last.shim = "none" /\ last'.shim # "none" /\ status' = "running") =>
          LET s == last'.shim
              a == last'.args
              c == last'.calls
          IN
          /\ s = "_g_object_set_one" =>
                /\ Len(c) = 1
                /\ c[1].fn = "g_object_set"
                /\ Len(c[1].args) = 4
                /\ c[1].args[1] = a[1]
                /\ c[1].args[2] = a[2]
                /\ a[3] \in DOMAIN HostCell => c[1].args[3] = HostCell[a[3]]
                /\ c[1].args[4] = NULL
                /\ \A o \in Objs, p \in PropNames :
                      props'[o][p] =
                         IF o = a[1] /\ p = a[2] THEN c[1].args[3] ELSE props[o][p]
          /\ s = "_gtk_tree_view_column_new_with_attributes_one" =>
                /\ Len(c) = 1
                /\ c[1].fn = "gtk_tree_view_column_new_with_attributes"
                /\ c[1].args = <<a[1], a[2], a[3], a[4], NULL>>
                /\ last'.ret.title = a[1]
                /\ last'.ret.renderer = a[2]
                /\ last'.ret.attrs = IF a[3] = NULL THEN {} ELSE {<<a[3], a[4]>>}
                /\ props' = props
    ]_vars

\* C2's case: two calls have each set one property of o1, to the two values
\* the host's cells hold, and o2 is as it was.
C2_Witness ==
    /\ Returned /\ ~ub
    /\ last.shim = "_g_object_set_one"
    /\ last.args = <<"o1", "angle", "c2">>
    /\ props["o1"] = [label |-> "v1", angle |-> "v2"]
    /\ props["o2"] = [label |-> "v0", angle |-> "v0"]

\* C9: the dialog shim hands the library the fixed format "%s" and msg as
\* its one variable argument; the dialog's text is msg, character for
\* character, and the library read exactly one variable argument.
C9_FixedFormat ==
    (Returned /\ last.shim = "_gtk_message_dialog_new") =>
        /\ Len(last.calls) = 1
        /\ Len(last.calls[1].args) = 6
        /\ last.calls[1].args[5] = <<"%", "s">>
        /\ last.calls[1].args[6] = last.args[5]
        /\ last.ret.text = last.args[5]
        /\ last.ret.va_read = 1

\* C9's case: a message that is itself a conversion specifier is shown as
\* it is.
C9_Witness ==
    /\ Returned
    /\ last.shim = "_gtk_message_dialog_new"
    /\ last.args[5] = <<"%", "s">>
    /\ last.ret.text = <<"%", "s">>

(***************************************************************************)
(* Properties of the array helpers (SpecArr)                               *)
(***************************************************************************)
\* C8: an allocator asked for n >= 1 elements returns n zeroed slots, and in
\* every state every slot of every array holds the value most recently
\* written at its index, as it was when written, or zero if none was: a
\* write changes its slot alone and a later change of its source changes
\* nothing.
C8_SlotsHoldLastWrite ==
    /\ DOMAIN shadow = DOMAIN heap
    /\ \A a \in DOMAIN heap : heap[a].cells = shadow[a]
    /\ (Returned /\ last.shim \in {"alloc_gvalue_list", "alloc_types"}) =>
          /\ IsBlock(last.ret)
          /\ heap[last.ret[1]].elt =
                (IF last.shim = "alloc_types" THEN "GType" ELSE "GValue")
          /\ heap[last.ret[1]].cells =
                [k \in 1..last.args[1] |-> Zero(heap[last.ret[1]].elt)]

\* C8's case: slot 0 of a two-slot array holds the G_TYPE_INT value copied
\* from the one other block, which has since been overwritten with zero;
\* slot 1 is still zero.
C8_Witness ==
    /\ Returned
    /\ last.shim = "val_list_insert"
    /\ \E a \in Blocks(heap, "GValue"), b \in Blocks(heap, "GValue") :
          /\ Len(heap[a].cells) = 2
          /\ heap[a].cells[1].g_type = "G_TYPE_INT"
          /\ heap[a].cells[2] = ZeroGValue
          /\ heap[b].cells = <<ZeroGValue>>

(***************************************************************************)
(* Properties of concurrent callers (SpecConc)                             *)
(***************************************************************************)
\* What a whole call does to memory.
Effect(h, shim, args) ==
    IF shim = "val_list_insert" THEN InsertMem(h, args[1], args[2], args[3])
    ELSE IF shim = "set_type" THEN SetTypeMem(h, args[1], args[2], args[3])
    ELSE h

BothDone == \A t \in Threads : thr[t].pc = "done"

\* C7: a call in flight can always take its next step, whatever the other
\* thread is doing or not doing; and when two calls that touch no common
\* element have both completed, memory is what either call followed by the
\* other would have left, however their steps were interleaved.
C7_NoScheduling ==
    /\ \A t \in Threads : InFlight(t) => ENABLED Step(t)
    /\ (BothDone /\ Disjoint(thr["t1"].shim, thr["t1"].args,
                             thr["t2"].shim, thr["t2"].args)) =>
          /\ heap = Effect(Effect(ConcHeap, thr["t1"].shim, thr["t1"].args),
                           thr["t2"].shim, thr["t2"].args)
          /\ heap = Effect(Effect(ConcHeap, thr["t2"].shim, thr["t2"].args),
                           thr["t1"].shim, thr["t1"].args)

\* C7's case: two val_list_insert calls on different slots of the same
\* array ran interleaved word by word, and both slots hold their values.
C7_Witness ==
    /\ BothDone /\ ~ub
    /\ thr["t1"].shim = "val_list_insert"
    /\ thr["t2"].shim = "val_list_insert"
    /\ heap["a1"].cells[1].g_type = "G_TYPE_INT"
    /\ heap["a1"].cells[2].g_type = "G_TYPE_STRING"

\* C10: a closure the caller has been given has goMarshal as its
\* marshaller, NULL data and the size of a plain GClosure, in every state
\* from the return on; invoking it dispatches to goMarshal.
C10_MarshalInstalled ==
    \A t \in Threads :
        /\ thr[t].visible =>
              thr[t].closure = [kind |-> "GClosure", size |-> "sizeof(GClosure)",
                                data |-> NULL, marshal |-> "goMarshal"]
        /\ thr[t].invoked \in {"none", "goMarshal"}

\* C10's case: one thread's closure exists without a marshaller and is not
\* yet the caller's, while the other thread's has been returned and invoked.
C10_Witness ==
    \E t \in Threads, u \in Threads :
        /\ InFlight(t)
        /\ thr[t].shim = "_g_closure_new"
        /\ thr[t].k = 2
        /\ thr[t].closure.marshal = NULL
        /\ ~thr[t].visible
        /\ thr[u].visible
        /\ thr[u].invoked = "goMarshal"

====
